---- MODULE Spec2Model ----
(***************************************************************************)
(* Model of the library-builder repository: the Navbar component, its unit *)
(* test, its Storybook catalog entry, the export manifest lib/index.ts,    *)
(* the Vite library build configuration and the package manifest.          *)
(***************************************************************************)
EXTENDS Naturals, Sequences, FiniteSets

\* ------------------------------------------------------------------ bounds
MaxRenders == 3   \* render calls (unit test + catalog tool) in one behaviour
MaxBuilds  == 2   \* runs of "pnpm run build" in one behaviour

\* ------------------------------------------------------------- path helper
\* path.resolve on segment lists: "." is dropped, ".." pops, others push.
RECURSIVE Normalize(_, _)
Normalize(acc, segs) ==
  IF segs = <<>> THEN acc
  ELSE LET h == Head(segs) t == Tail(segs) IN
       IF h = "." THEN Normalize(acc, t)
       ELSE IF h = ".."
            THEN Normalize(IF acc = <<>> THEN acc ELSE SubSeq(acc, 1, Len(acc) - 1), t)
            ELSE Normalize(Append(acc, h), t)

resolve(dir, rel) == Normalize(dir, rel)

\* __dirname of vite.config.ts: the repository root.
RootDir == <<>>
\* directory of lib/index.ts
LibDir == <<"lib">>
\* directory of navbar.stories.ts and navbar.spec.tsx
NavbarDir == <<"lib", "components", "navbar">>

\* ----------------------------------------------------------- the component
\* variant: the output shows whether the component was rendered before
Navbar_counting(s) ==
  [out |-> [tag |-> "div", children |-> IF s = 0 THEN <<>> ELSE <<"again">>],
   state |-> 1]

\* variant: each render bumps a module-level counter
Navbar_sideEffect(s) == [out |-> [tag |-> "div", children |-> <<>>], state |-> s + 1]

\* export default function Navbar() { return (<div></div>); }
\* s is the state a render could touch (component / module level); the body
\* has no statement besides the return, so it is handed back untouched.
Navbar(s) == [out |-> [tag |-> "div", children |-> <<>>], state |-> s]

\* variant: the component requires a `title` property
NavbarRequiredProps_title == {"title"}

\* Navbar() declares no parameters: no property is required.
NavbarRequiredProps == {}

\* the module that defines the component, lib/components/navbar/navbar.tsx
NavbarModule == <<"lib", "components", "navbar", "navbar">>

\* the components defined in the tree, by defining module
ComponentTree == {NavbarModule}

\* variant: the manifest also exports a second, undocumented name
index_ts_extra ==
  [n \in {"Navbar", "Button"} |->
     resolve(LibDir, <<".", "components", "navbar", "navbar">>)]

\* --------------------------------------------------------- export manifest
\* import Navbar from './components/navbar/navbar'; export { Navbar };
index_ts == [Navbar |-> resolve(LibDir, <<".", "components", "navbar", "navbar">>)]

\* variant: the story imports "../navbar", which is not the component module
meta_wrongImport ==
  [title |-> "Navbar Example", component |-> resolve(NavbarDir, <<"..", "navbar">>)]

\* ------------------------------------------------------------ catalog entry
\* import Navbar from "./navbar"; const meta = { title, component: Navbar }
meta == [title |-> "Navbar Example", component |-> resolve(NavbarDir, <<".", "navbar">>)]

\* export const Default: Story = {};   (no args)
Default == [args |-> <<>>]

\* ------------------------------------------------------------ unit test
\* import Navbar from './navbar'  in navbar.spec.tsx
SpecImport == resolve(NavbarDir, <<".", "navbar">>)

\* text of an element: its text-node children, concatenated
RECURSIVE ownText(_)
ownText(children) ==
  IF children = <<>> THEN "" ELSE Head(children) \o ownText(Tail(children))

\* variant: a query that returns null instead of throwing, unchecked
getByText_lenient(doc, text) == [threw |-> FALSE]

\* getByText(text): the elements of the document whose text is `text`;
\* the query throws unless exactly one element matches.
matchesOf(doc, text) == {i \in DOMAIN doc : ownText(doc[i].children) = text}
getByText(doc, text) ==
  LET m == matchesOf(doc, text) IN
  IF Cardinality(m) = 1 THEN [threw |-> FALSE] ELSE [threw |-> TRUE]

\* the literal the test asserts
AssertedText == "Navbar"

\* ------------------------------------------------------ build configuration
\* build.lib.entry: resolve(__dirname, "./lib/index.ts")
entry == [dir |-> resolve(RootDir, <<".", "lib">>), name |-> "index", ext |-> "ts"]

\* build.lib sets no `formats`: a single-entry library build emits es and umd
Formats == {"es", "umd"}

\* variant: the format is put in the extension position
fileName_swapped(format) == "index.js." \o format

\* build.lib.fileName: (format) => `index.${format}.js`
fileName(format) == "index." \o format \o ".js"

\* variant: tailwindcss is forgotten in the external list
external_missing == {"react", "react-dom"}

\* build.rollupOptions.external: ids left out of the bundle (exact id match)
external == {"react", "react-dom", "tailwindcss"}

\* build.rollupOptions.output.globals
globals == [p \in {"react", "react-dom", "tailwindcss"} |->
              IF p = "react" THEN "React"
              ELSE IF p = "react-dom" THEN "ReactDOM" ELSE "tailwindcss"]

\* build.sourcemap: true -- every chunk comes with a .map file
sourcemap == TRUE

\* output directory of the build (package.json "files": ["dist"])
outDir == "dist"
distPath(file) == "./" \o outDir \o "/" \o file

\* dts({ rollupTypes: true }): one declaration file named after the entry
dtsFile == entry.name \o ".d.ts"

\* module ids a library built with this configuration imports: the host
\* packages, the JSX runtime the react-jsx transform inserts, the component
ImportIds == {"react", "react-dom", "tailwindcss", "react/jsx-runtime",
              "./components/navbar/navbar"}

\* ---------------------------------------------------------- package manifest
package_json ==
  [main    |-> "./dist/index.umd.js",
   module  |-> "./dist/index.es.js",
   types   |-> "./dist/index.d.ts",
   exports |-> [import  |-> "./dist/index.es.js",
                require |-> "./dist/index.umd.js",
                types   |-> "./dist/index.d.ts"],
   peerDependencies |-> {"react", "react-dom", "tailwindcss"}]

\* the files the manifest's entry points name
EntryPoints ==
  {package_json.main, package_json.module, package_json.types,
   package_json.exports.import, package_json.exports.require,
   package_json.exports.types}

\* names a consuming application may try to import from the package
ImportNames == {"Navbar", "Button", "default"}

VARIABLES
  compState,       \* state outside the render output that a render could touch
  exportManifest,  \* public name -> defining module (lib/index.ts, as loaded)
  catalogEntry,    \* meta of navbar.stories.ts, as loaded
  document,        \* jsdom document: the mounted render outputs
  outputs,         \* every output a render call has returned, in order
  testStatus,      \* "idle" | "passed" | "failed"
  testAttempts,    \* executions of the test body in the current run
  testOutput,      \* what the current run's render(<Navbar />) mounted
  storyStatus,     \* "unmounted" | "rendered" | "threw"
  buildPc,         \* "idle" | "resolving" | "generating" | "done"
  builds,          \* builds started
  pendingFormats,  \* formats still to generate in the running build
  dist,            \* files in the output directory
  bundled,         \* import ids inlined into the bundle
  externalised,    \* import ids left to the consumer
  umdGlobals,      \* id -> global variable name used by the umd output
  lookups,         \* names a consumer looked up in the package at run time
  resolved,        \* <<name, component>> pairs consumers received
  rejected         \* names the consumer's build / type check refused

testVars  == <<document, testStatus, testAttempts, testOutput>>
buildVars == <<buildPc, builds, pendingFormats, dist, bundled, externalised,
               umdGlobals>>
consumerVars == <<lookups, resolved, rejected>>
loadedVars == <<exportManifest, catalogEntry>>

vars == <<compState, exportManifest, catalogEntry, document, outputs,
          testStatus, testAttempts, testOutput, storyStatus,
          buildPc, builds, pendingFormats, dist, bundled, externalised,
          umdGlobals, lookups, resolved, rejected>>

NoOutput == [tag |-> "none", children |-> <<>>]

Init ==
  /\ compState = 0
  /\ exportManifest = index_ts
  /\ catalogEntry = meta
  /\ document = <<>>
  /\ outputs = <<>>
  /\ testStatus = "idle"
  /\ testAttempts = 0
  /\ testOutput = NoOutput
  /\ storyStatus = "unmounted"
  /\ buildPc = "idle"
  /\ builds = 0
  /\ pendingFormats = {}
  /\ dist = {}
  /\ bundled = {}
  /\ externalised = {}
  /\ umdGlobals = <<>>
  /\ lookups = {}
  /\ resolved = {}
  /\ rejected = {}

\* ------------------------------------------------------------- unit test
\* it('renders', ...): render(<Navbar />) mounts the output in the document,
\* getByText('Navbar') queries it, expect(...).toBeTruthy() on the element.
RunTest ==
  /\ testStatus = "idle"
  /\ Len(outputs) < MaxRenders
  /\ SpecImport \in ComponentTree
  /\ LET r   == Navbar(compState)
         doc == Append(document, r.out)
         q   == getByText(doc, AssertedText)
     IN /\ compState' = r.state
        /\ document' = doc
        /\ outputs' = Append(outputs, r.out)
        /\ testOutput' = r.out
        /\ testAttempts' = testAttempts + 1
        /\ testStatus' = IF q.threw THEN "failed" ELSE "passed"
  /\ UNCHANGED <<loadedVars, storyStatus, buildVars, consumerVars>>

\* afterEach cleanup registered by the testing library (test.globals: true):
\* unmounts what the test rendered; the runner is ready for the next run.
Cleanup ==
  /\ testStatus \in {"passed", "failed"}
  /\ document' = <<>>
  /\ testStatus' = "idle"
  /\ testAttempts' = 0
  /\ testOutput' = NoOutput
  /\ UNCHANGED <<compState, loadedVars, outputs, storyStatus, buildVars,
                 consumerVars>>

\* ------------------------------------------------------------ catalog tool
\* The catalog tool renders meta.component with the args of Default.  The
\* render throws when the reference is not a component of the tree or a
\* property the component requires is not supplied.
RenderStory ==
  /\ storyStatus = "unmounted"
  /\ Len(outputs) < MaxRenders
  /\ LET comp == catalogEntry.component
         ok   == /\ comp \in ComponentTree
                 /\ NavbarRequiredProps \subseteq DOMAIN Default.args
         r    == Navbar(compState)
     IN IF ok
        THEN /\ compState' = r.state
             /\ outputs' = Append(outputs, r.out)
             /\ storyStatus' = "rendered"
        ELSE /\ storyStatus' = "threw"
             /\ UNCHANGED <<compState, outputs>>
  /\ UNCHANGED <<loadedVars, testVars, buildVars, consumerVars>>

\* leaving the story in the catalog tool unmounts it
LeaveStory ==
  /\ storyStatus \in {"rendered", "threw"}
  /\ storyStatus' = "unmounted"
  /\ UNCHANGED <<compState, loadedVars, outputs, testVars, buildVars,
                 consumerVars>>

\* ------------------------------------------------------------------ build
\* "build": "tsc && vite build" -- emptyOutDir: true clears the output dir
BuildStart ==
  /\ buildPc \in {"idle", "done"}
  /\ builds < MaxBuilds
  /\ builds' = builds + 1
  /\ buildPc' = "resolving"
  /\ pendingFormats' = Formats
  /\ dist' = {}
  /\ bundled' = {}
  /\ externalised' = {}
  /\ umdGlobals' = <<>>
  /\ UNCHANGED <<compState, loadedVars, outputs, testVars, storyStatus,
                 consumerVars>>

\* the bundler meets an import: ids listed in `external` stay imports (the
\* umd output reads them from output.globals), every other id is inlined
ResolveImport(id) ==
  /\ buildPc = "resolving"
  /\ id \notin bundled \cup externalised
  /\ IF id \in external
     THEN /\ externalised' = externalised \cup {id}
          /\ umdGlobals' = [p \in DOMAIN umdGlobals \cup {id} |->
                              IF p = id
                              THEN (IF id \in DOMAIN globals THEN globals[id] ELSE "")
                              ELSE umdGlobals[p]]
          /\ UNCHANGED bundled
     ELSE /\ bundled' = bundled \cup {id}
          /\ UNCHANGED <<externalised, umdGlobals>>
  /\ UNCHANGED <<compState, loadedVars, outputs, testVars, storyStatus,
                 buildPc, builds, pendingFormats, dist, consumerVars>>

\* one output format is generated: the chunk, named by build.lib.fileName,
\* and its source map
Generate(f) ==
  /\ buildPc \in {"resolving", "generating"}
  /\ f \in pendingFormats
  /\ buildPc' = "generating"
  /\ pendingFormats' = pendingFormats \ {f}
  /\ dist' = dist \cup {distPath(fileName(f))}
                  \cup (IF sourcemap THEN {distPath(fileName(f) \o ".map")} ELSE {})
  /\ UNCHANGED <<compState, loadedVars, outputs, testVars, storyStatus,
                 builds, bundled, externalised, umdGlobals, consumerVars>>

\* after the last format the dts plugin writes the rolled-up declarations
EmitTypes ==
  /\ buildPc = "generating"
  /\ pendingFormats = {}
  /\ dist' = dist \cup {distPath(dtsFile)}
  /\ buildPc' = "done"
  /\ UNCHANGED <<compState, loadedVars, outputs, testVars, storyStatus,
                 builds, pendingFormats, bundled, externalised, umdGlobals,
                 consumerVars>>

\* --------------------------------------------------------------- consumer
\* A consuming application imports name n from the built package.  Its type
\* check reads the declaration file package.json "types" points to: a name
\* the manifest does not export is refused there; an exported name is looked
\* up at run time and yields the component the manifest maps it to.
ConsumerImport(n) ==
  /\ buildPc = "done"
  /\ package_json.types \in dist
  /\ n \notin lookups \cup rejected
  /\ IF n \in DOMAIN exportManifest
     THEN /\ lookups' = lookups \cup {n}
          /\ resolved' = resolved \cup {<<n, exportManifest[n]>>}
          /\ UNCHANGED rejected
     ELSE /\ rejected' = rejected \cup {n}
          /\ UNCHANGED <<lookups, resolved>>
  /\ UNCHANGED <<compState, loadedVars, outputs, testVars, storyStatus,
                 buildVars>>

Next ==
  \/ RunTest
  \/ Cleanup
  \/ RenderStory
  \/ LeaveStory
  \/ BuildStart
  \/ \E id \in ImportIds : ResolveImport(id)
  \/ \E f \in Formats : Generate(f)
  \/ EmitTypes
  \/ \E n \in ImportNames : ConsumerImport(n)

Spec == Init /\ [][Next]_vars

\* ================================================================ properties
HasText(node) == ownText(node.children) = AssertedText
Range(f) == {f[x] : x \in DOMAIN f}

\* the public names the README documents for lib/index.ts
DocumentedPublicNames == {"Navbar"}

\* C1: once the unit test has run, it has passed and the text "Navbar" is
\* present in the rendered output.
C1_TestPasses ==
  testAttempts > 0 => (testStatus = "passed" /\ HasText(testOutput))

C3_Deterministic ==
  \A i \in DOMAIN outputs : \A j \in DOMAIN outputs : outputs[i] = outputs[j]

C3_Witness ==
  /\ Len(outputs) >= 2
  /\ testAttempts = 1
  /\ storyStatus = "rendered"

\* C4: rendering the Default variant, which supplies no args, never throws.
C4_DefaultRenders ==
  /\ storyStatus # "threw"
  /\ storyStatus = "rendered" => outputs # <<>>

C4_Witness ==
  /\ storyStatus = "rendered"
  /\ DOMAIN Default.args = {}

\* C5: every peer dependency is in rollupOptions.external, has a global
\* name and is never inlined; nothing is externalised that is not a peer
\* dependency.
C5_PeersExternal ==
  /\ \A p \in package_json.peerDependencies :
        /\ p \in external
        /\ p \in DOMAIN globals
        /\ p \notin bundled
  /\ external \subseteq package_json.peerDependencies
  /\ externalised \subseteq package_json.peerDependencies
  /\ \A p \in externalised : p \in DOMAIN umdGlobals /\ umdGlobals[p] # ""

C5_Witness ==
  /\ buildPc = "done"
  /\ externalised = package_json.peerDependencies
  /\ bundled = ImportIds \ package_json.peerDependencies

\* C6: the build emits index.es.js and index.umd.js (and index.d.ts), and
\* the manifest's entry points name them: main/require the umd file,
\* module/import the es file, types the declaration file; after a build no
\* entry point names a file that is missing from dist.
C6_EntryPointsEmitted ==
  /\ Formats = {"es", "umd"}
  /\ package_json.main = "./dist/index.umd.js"
  /\ package_json.exports.require = package_json.main
  /\ package_json.module = "./dist/index.es.js"
  /\ package_json.exports.import = package_json.module
  /\ package_json.types = "./dist/index.d.ts"
  /\ package_json.exports.types = package_json.types
  /\ ("es" \in Formats \ pendingFormats /\ buildPc # "idle")
        => package_json.module \in dist
  /\ ("umd" \in Formats \ pendingFormats /\ buildPc # "idle")
        => package_json.main \in dist
  /\ buildPc = "done" => EntryPoints \subseteq dist

C6_Witness ==
  /\ buildPc = "done"
  /\ {"./dist/index.umd.js", "./dist/index.es.js", "./dist/index.d.ts"} \subseteq dist

\* C7: the test is reported failed exactly when it ran and the rendered
\* output lacks the asserted text; it is never reported passed for such an
\* output; the test body runs at most once per run (no retry).
C7_FailsIffTextMissing ==
  /\ testStatus = "failed" <=> (testAttempts > 0 /\ ~HasText(testOutput))
  /\ testStatus = "passed" => HasText(testOutput)
  /\ testAttempts <= 1

C7_Witness ==
  /\ testStatus = "failed"
  /\ testAttempts = 1
  /\ testOutput = [tag |-> "div", children |-> <<>>]

\* C8: a render call (by the unit test or by the catalog tool) leaves the
\* component state, the export manifest and the catalog entry unchanged.
C8_RenderFrame ==
  [][(RunTest \/ RenderStory) =>
        UNCHANGED <<compState, exportManifest, catalogEntry>>]_vars

C8_Witness ==
  /\ Len(outputs) >= 2
  /\ compState = 0
  /\ exportManifest = index_ts
  /\ catalogEntry = meta

\* C9: the component the catalog entry references is defined in the tree
\* and is the component the export manifest maps the name Navbar to.
C9_CatalogComponentExported ==
  /\ catalogEntry.component \in ComponentTree
  /\ catalogEntry.component \in Range(exportManifest)
  /\ "Navbar" \in DOMAIN exportManifest
  /\ exportManifest["Navbar"] = catalogEntry.component

C9_Witness ==
  /\ storyStatus = "rendered"
  /\ <<"Navbar", catalogEntry.component>> \in resolved
====
